---- MODULE Spec2Model ----
(***************************************************************************)
(* A model of machamp's autoregressive decoder, MachampSeq2SeqDecoder      *)
(* (src/machamp/models/seq2seq_decoder.py): the forward pass with its      *)
(* decoding loop and beam search, the output finalizer and the metric.     *)
(*                                                                         *)
(* Tensors are functions over the batch 1..BatchSize; a vocabulary row is  *)
(* a function over the class ids 0..VocabSize-1.  The trained weights are  *)
(* a record of small integers fixed at construction; hidden and context    *)
(* vectors are residues modulo HiddenMod.  Every weight record gives rows  *)
(* of pairwise distinct scores, as float scores are, so argmax and top-k   *)
(* over one row never meet a tie.                                          *)
(***************************************************************************)
EXTENDS Integers, Sequences, FiniteSets, TLC

\* ------------------------------------------------------------------ bounds
BatchSize == 2
NumWords == 1
HiddenMod == 2
MaxDecodingSteps == 2
MaxBeamSize == 2
RandDen == 2
MaxBleuUpdates == 1
NumLayers == 2

\* ------------------------------------------------------- program constants
PadIndex == 0
StartIndex == 2
EndIndex == 3

VocabSize == EndIndex + 1 + NumWords
Classes == 0 .. (VocabSize - 1)
Batch == 1 .. BatchSize
MaxTargetLen == MaxDecodingSteps + 2
NoTargets == << >>
NoBleu == [none |-> TRUE]
NegInf == 0 - (VocabSize + 1) * (MaxDecodingSteps + 1)

\* ------------------------------------------------------------ list helpers
\* f itself, tabulated once: TLC otherwise evaluates the body of a function
\* constructor again at every application.
Eager(f) == f @@ << >>

RECURSIVE IndexOf(_, _, _)
\* list.index(x): the first position i >= from with s[i] = x, 0 when absent.
IndexOf(s, x, from) ==
    IF from > Len(s) THEN 0
    ELSE IF s[from] = x THEN from
    ELSE IndexOf(s, x, from + 1)

RECURSIVE SumTo(_, _)
SumTo(f, n) == IF n = 0 THEN 0 ELSE f[n] + SumTo(f, n - 1)

Contains(s, x) == \E i \in 1 .. Len(s) : s[i] = x

RowMax(row) == CHOOSE m \in {row[c] : c \in Classes} : \A c \in Classes : row[c] <= m

RowMin(row) == CHOOSE m \in {row[c] : c \in Classes} : \A c \in Classes : row[c] >= m

\* The index of the minimal value instead of the maximal one.
ArgMin(row) ==
    LET m == RowMin(row)
    IN  CHOOSE c \in Classes : row[c] = m /\ \A d \in 0 .. (c - 1) : row[d] # m

\* torch.max(row, 1): the first index holding the maximal value.
ArgMax(row) ==
    LET m == RowMax(row)
    IN  CHOOSE c \in Classes : row[c] = m /\ \A d \in 0 .. (c - 1) : row[d] # m

\* topk over a sequence of values: the k positions of the largest values, largest
\* first, equal values in position order.
TopK(vals, k) ==
    Eager([r \in 1 .. k |->
        CHOOSE i \in 1 .. Len(vals) :
            Cardinality({j \in 1 .. Len(vals) : vals[j] > vals[i] \/ (vals[j] = vals[i] /\ j < i)}) = r - 1])

\* ------------------------------------------------------------------- state
VARIABLES
    weights,                   \* the trained parameters of cell, embedder and projection
    scheduled_sampling_ratio,  \* self._scheduled_sampling_ratio, in units of 1/RandDen
    beam_size,                 \* the beam size of self._beam_search
    attention,                 \* whether self._attention is configured
    target_decoder_layers,     \* self._target_decoder_layers
    bleu,                      \* self._bleu: NoBleu or the metric's counters
    training,                  \* self.training
    pc,                        \* where the current call stands
    caller,                    \* "forward", or "greedy" for a direct run of the loop
    source,                    \* embedded_text and source_mask of the call
    target_tokens,             \* the gold targets of the call, or NoTargets
    state,                     \* the decoder state dict, one entry per batch element
    num_decoding_steps,
    timestep,
    last_predictions,
    step_logits,
    step_predictions,
    step_inputs,               \* the input_choices handed to each step, in order
    step_attention,            \* per step: what went to the attention and to the projection
    beam,                      \* the hypothesis groups of the beam search
    calls,                     \* calls of the step function in the current pass
    output_dict,               \* the result bundle of forward
    bleu_args,                 \* the arguments of the last call of self._bleu
    metrics,                   \* what get_metrics returned last
    reset_arg,                 \* the reset argument of the last get_metrics
    loss_call,                 \* arguments and result of a call of _get_loss on its own
    predicted_indices,         \* the argument of make_output_human_readable
    all_predicted_tokens       \* what make_output_human_readable returned

vars == <<weights, scheduled_sampling_ratio, beam_size, attention, target_decoder_layers, bleu, training, pc, caller, source,
          target_tokens, state, num_decoding_steps, timestep, last_predictions, step_logits,
          step_predictions, step_inputs, step_attention, beam, calls, output_dict, bleu_args, metrics,
          reset_arg, loss_call, predicted_indices, all_predicted_tokens>>

config == <<weights, scheduled_sampling_ratio, beam_size, attention, target_decoder_layers>>
loopVars == <<num_decoding_steps, timestep, last_predictions, step_logits, step_predictions,
              step_inputs, step_attention>>
readable == <<predicted_indices, all_predicted_tokens, loss_call>>

\* ------------------------------------------------------------- the network
\* The weight records a model instance may hold after training.
Weights == [a : {0, 1}, p : {1, VocabSize - 1}, q : {1, 2}]

\* self._target_embedder: the padding index embeds to the zero vector.
Embedding(w, tok) == IF tok = PadIndex THEN 0 ELSE (tok + w.q) % HiddenMod

\* self._decoder_cell (LSTMCell): (input, (hidden, context)) -> (hidden, context).
DecoderCell(w, inp, h, c) ==
    LET c2 == (c + inp + 1) % HiddenMod
    IN  [hidden |-> (w.a * h + c2) % HiddenMod, context |-> c2]

\* self._output_projection_layer: hidden -> one score per class.
OutputProjection(w, h) == Eager([c \in Classes |-> (w.p * c + w.q * h) % VocabSize])

\* F.log_softmax: an order-preserving shift of the row to negative values.
LogSoftmax(row) == LET m == RowMax(row) IN Eager([c \in Classes |-> row[c] - (m + 1)])

\* F.softmax: an order-preserving map of the row to positive values.
Softmax(row) == LET m == RowMin(row) IN Eager([c \in Classes |-> row[c] - m + 1])

HiddenValues == 0 .. (HiddenMod - 1)

\* _prepare_output_projections for one row of the group without attention and
\* with one layer, as a function of the weights, the token fed and the (hidden,
\* context) pair.
PrepareOutputProjectionsOf ==
    Eager([w \in Weights, tok \in Classes, h \in HiddenValues, c \in HiddenValues |->
        LET new == DecoderCell(w, Embedding(w, tok), h, c)
        IN  [projections |-> OutputProjection(w, new.hidden),
             state |-> [decoder_hidden |-> new.hidden, decoder_context |-> new.context]]])

\* _prepare_attended_input: the attention weights depend on the query and on
\* the unmasked source positions; the weighted sum of the encoder outputs.
PrepareAttendedInput(decoder_hidden_state, encoder_outputs, encoder_outputs_mask) ==
    LET n == Len(encoder_outputs)
        input_weights == Eager([i \in 1 .. n |->
                            IF encoder_outputs_mask[i] THEN ((decoder_hidden_state + i) % HiddenMod) + 1 ELSE 0])
    IN  SumTo(Eager([i \in 1 .. n |-> input_weights[i] * encoder_outputs[i]]), n) % HiddenMod

\* self._decoder_cell (LSTM with several layers): layer 1 takes the input, every
\* further layer the new hidden state of the layer below; layers 1 .. l.
DecoderLSTM(w, inp, h, c, l) ==
    LET layer[i \in 1 .. l] ==
            DecoderCell(w, IF i = 1 THEN inp ELSE layer[i - 1].hidden, h[i], c[i])
    IN  [decoder_hidden |-> [i \in 1 .. l |-> layer[i].hidden],
         decoder_context |-> [i \in 1 .. l |-> layer[i].context]]

NoQuery == 0 - 1

\* The state handed to the attention: decoder_hidden[0], layer 1 of the stack,
\* when the cell is stacked, else the hidden state.
AttentionQuery(st) ==
    IF target_decoder_layers > 1 THEN st.decoder_hidden[1] ELSE st.decoder_hidden

\* The input of the cell: the embedding of the token, with attention joined to
\* the attended input.
DecoderInput(w, tok, st) ==
    IF attention
    THEN (PrepareAttendedInput(AttentionQuery(st), st.encoder_outputs, st.source_mask)
            + Embedding(w, tok)) % HiddenMod
    ELSE Embedding(w, tok)

\* The (hidden, context) pair of a cell as the two entries of the state.
AsState(cell) == [decoder_hidden |-> cell.hidden, decoder_context |-> cell.context]

\* The cell applied to the input and the (hidden, context) of the state.
DecoderUpdate(w, inp, st) ==
    IF target_decoder_layers > 1
    THEN DecoderLSTM(w, inp, st.decoder_hidden, st.decoder_context, target_decoder_layers)
    ELSE AsState(DecoderCell(w, inp, st.decoder_hidden, st.decoder_context))

\* The state handed to the projection layer: decoder_hidden[-1], the last layer
\* of the stack, when the cell is stacked, else the hidden state.
ProjectedHidden(decoder_hidden) ==
    IF target_decoder_layers > 1 THEN decoder_hidden[Len(decoder_hidden)] ELSE decoder_hidden

\* The tail of _prepare_output_projections: the new hidden state and context go
\* into the state, and the projections are made.
ProjectAndStore(w, st, new, query) ==
    [projections |-> OutputProjection(w, ProjectedHidden(new.decoder_hidden)),
     state |-> [st EXCEPT !.decoder_hidden = new.decoder_hidden,
                          !.decoder_context = new.decoder_context],
     query |-> query,
     projected |-> ProjectedHidden(new.decoder_hidden)]

\* _prepare_output_projections for one row of the group: the projections, the
\* updated state, and what was handed to the attention (query) and to the
\* projection layer (projected).
PrepareOutputProjections(w, tok, st) ==
    IF ~attention /\ target_decoder_layers = 1
    THEN ProjectAndStore(w, st,
             PrepareOutputProjectionsOf[w, tok, st.decoder_hidden, st.decoder_context].state, NoQuery)
    ELSE ProjectAndStore(w, st, DecoderUpdate(w, DecoderInput(w, tok, st), st),
                         IF attention THEN AttentionQuery(st) ELSE NoQuery)

\* The log-probabilities of a result of _prepare_output_projections.
WithLogSoftmax(out) == [log_probabilities |-> LogSoftmax(out.projections), state |-> out.state]

\* take_step for one row of the group.
TakeStep(w, tok, st) == WithLogSoftmax(PrepareOutputProjections(w, tok, st))

\* ------------------------------------------------------------------ inputs
\* What the encoder hands over: per batch element the source representations and
\* the source mask (the second element of the batch is padded by one position).
Sources ==
    { [encoder_outputs |-> [b \in Batch |-> <<(e + b) % HiddenMod, (e * b + 1) % HiddenMod>>],
       source_mask |-> [b \in Batch |-> <<TRUE, b % 2 = 1>>]] : e \in 0 .. (HiddenMod - 1) }

\* One gold row of padded length len: <S> w .. w <E> <P> .. <P>, as drawn in the
\* docstring of _get_loss; row b of a batch carries b - 1 padding positions
\* where the length allows it.
GoldRow(len, g, b) ==
    LET real == IF len - (b - 1) < 2 THEN 2 ELSE len - (b - 1)
    IN  [i \in 1 .. len |->
            IF i = 1 THEN StartIndex
            ELSE IF i < real THEN EndIndex + 1 + ((g + i + b) % NumWords)
            ELSE IF i = real THEN EndIndex
            ELSE PadIndex]

Targets ==
    { [tokens |-> [b \in Batch |-> GoldRow(len, g, b)]] :
        len \in 2 .. MaxTargetLen, g \in 0 .. (NumWords - 1) }

NoBeam == [done |-> FALSE]
NoSource == [none |-> TRUE]
NoTensor == [dims |-> 0]
EmptyDict == [k \in {} |-> 0]
ZeroBleu == [precision_matches |-> 0, precision_totals |-> 0,
             prediction_lengths |-> 0, reference_lengths |-> 0, updates |-> 0]

\* util.get_final_encoder_states: the output at the last unmasked position.
FinalEncoderStates(src) ==
    [b \in Batch |->
        LET last == CHOOSE i \in 1 .. Len(src.source_mask[b]) :
                        /\ src.source_mask[b][i]
                        /\ \A j \in (i + 1) .. Len(src.source_mask[b]) : ~src.source_mask[b][j]
        IN  src.encoder_outputs[b][last]]

\* _init_decoder_state: hidden is the final encoder output, context is zero.
InitDecoderState(src) ==
    LET final_encoder_output == FinalEncoderStates(src)
    IN  [b \in Batch |->
            [encoder_outputs |-> src.encoder_outputs[b],
             source_mask |-> src.source_mask[b],
             decoder_hidden |-> IF target_decoder_layers > 1
                                THEN [l \in 1 .. target_decoder_layers |-> final_encoder_output[b]]
                                ELSE final_encoder_output[b],
             decoder_context |-> IF target_decoder_layers > 1
                                 THEN [l \in 1 .. target_decoder_layers |-> 0]
                                 ELSE 0]]

\* __init__: the fields set at construction; the metric starts empty and a new
\* module is in training mode.
Constructed ==
    /\ weights \in Weights
    /\ scheduled_sampling_ratio \in 0 .. RandDen
    /\ beam_size \in 1 .. MaxBeamSize
    /\ attention \in BOOLEAN
    /\ target_decoder_layers \in 1 .. NumLayers
    /\ bleu \in {NoBleu, ZeroBleu}
    /\ training = TRUE
    /\ pc = "idle"
    /\ caller = "forward"
    /\ source = NoSource
    /\ target_tokens = NoTargets
    /\ state = EmptyDict
    /\ num_decoding_steps = 0
    /\ timestep = 0
    /\ last_predictions = EmptyDict
    /\ step_logits = << >>
    /\ step_predictions = << >>
    /\ step_inputs = << >>
    /\ step_attention = << >>
    /\ beam = NoBeam
    /\ calls = 0
    /\ output_dict = EmptyDict
    /\ bleu_args = << >>
    /\ metrics = EmptyDict
    /\ reset_arg = FALSE
    /\ loss_call = << >>
    /\ predicted_indices = NoTensor
    /\ all_predicted_tokens = << >>

\* The instances without the metric (use_bleu = False): any sampling ratio with
\* one beam, any beam size with ratio 0.
Init ==
    /\ Constructed
    /\ ~attention
    /\ target_decoder_layers = 1
    /\ bleu = NoBleu
    /\ (beam_size = 1 \/ scheduled_sampling_ratio = 0)

\* The instances with the metric (use_bleu = True), ratio 0 and the widest beam.
InitBleu ==
    /\ Constructed
    /\ ~attention
    /\ target_decoder_layers = 1
    /\ bleu # NoBleu
    /\ scheduled_sampling_ratio = 0
    /\ beam_size = MaxBeamSize

\* The instances with attention and a stacked cell, without the metric, with
\* one beam and ratio 0.
InitStacked ==
    /\ Constructed
    /\ attention
    /\ target_decoder_layers = NumLayers
    /\ bleu = NoBleu
    /\ scheduled_sampling_ratio = 0
    /\ beam_size = 1

\* ------------------------------------------------------------ decoding loop
\* The number of steps with one step beyond the budget when there are no targets.
NumDecodingStepsBeyondBudget(tgt) ==
    IF tgt # NoTargets THEN Len(tgt.tokens[1]) - 1 ELSE MaxDecodingSteps + 1

\* The number of steps with the last target position processed too.
NumDecodingStepsWholeTarget(tgt) ==
    IF tgt # NoTargets THEN Len(tgt.tokens[1]) ELSE MaxDecodingSteps

\* The head of _forward_loop: the number of steps.
NumDecodingSteps(tgt) ==
    IF tgt # NoTargets THEN Len(tgt.tokens[1]) - 1 ELSE MaxDecodingSteps

\* new_full((batch_size,), fill_value=self._start_index) in _forward_beam_search.
StartPredictions == [b \in Batch |-> StartIndex]

\* The first last_predictions filled with the end marker.
LastPredictionsInitWithEnd == [b \in Batch |-> EndIndex]

\* new_full((batch_size,), fill_value=self._start_index) in _forward_loop.
LastPredictionsInit == [b \in Batch |-> StartIndex]

\* The branch with the comparison of draw and ratio the other way round.
InputChoicesInverted(tr, draw, ratio, tgt, last, t) ==
    IF tr /\ draw >= ratio THEN [choices |-> last, from |-> "last_predictions", position |-> t]
    ELSE IF tgt = NoTargets THEN [choices |-> last, from |-> "last_predictions", position |-> t]
    ELSE [choices |-> [b \in Batch |-> tgt.tokens[b][t + 1]], from |-> "targets", position |-> t]

\* The branch of one step: the tokens the step is fed, and where they are read
\* from (targets[:, timestep], position counted from 0, or last_predictions).
InputChoices(tr, draw, ratio, tgt, last, t) ==
    IF tr /\ draw < ratio THEN [choices |-> last, from |-> "last_predictions", position |-> t]
    ELSE IF tgt = NoTargets THEN [choices |-> last, from |-> "last_predictions", position |-> t]
    ELSE [choices |-> [b \in Batch |-> tgt.tokens[b][t + 1]], from |-> "targets", position |-> t]

\* util.get_text_field_mask: the positions that are not padding.
TextFieldMask(tgt) ==
    [b \in Batch |-> [i \in 1 .. Len(tgt.tokens[b]) |-> tgt.tokens[b][i] # PadIndex]]

\* Row i (from 1) of logits.view(-1, num_classes): the steps of the first batch
\* element, then those of the second, and so on.
FlatRow(logits, i) ==
    logits[((i - 1) % Len(logits)) + 1][((i - 1) \div Len(logits)) + 1]

\* util.sequence_cross_entropy_with_logits: logits and targets are flattened
\* over batch and steps, the log-probability of flat target i is gathered from
\* flat row i, and the result is viewed in the shape of the targets; per
\* sequence the masked sum of the negative log-likelihoods and the sum of the
\* mask, from which the average is formed.  The gather fails (failed) when there
\* are more flat targets than flat rows, and goes through when there are fewer.
SequenceCrossEntropy(logits, tgts, mask) ==
    LET n == Len(tgts[1])
    IN  IF BatchSize * n > BatchSize * Len(logits) THEN [failed |-> TRUE, per_sequence |-> << >>]
        ELSE [failed |-> FALSE,
              per_sequence |->
                [b \in Batch |->
                    [nll |-> SumTo([t \in 1 .. n |->
                                      IF mask[b][t]
                                      THEN 0 - LogSoftmax(FlatRow(logits, (b - 1) * n + t))[tgts[b][t]]
                                      ELSE 0],
                                   n),
                     weight |-> SumTo([t \in 1 .. n |-> IF mask[b][t] THEN 1 ELSE 0], n)]]]

\* _get_loss: targets and mask lose their first position.
GetLoss(logits, tgts, mask) ==
    SequenceCrossEntropy(logits, [b \in Batch |-> Tail(tgts[b])], [b \in Batch |-> Tail(mask[b])])

\* forward, up to the first step of whichever pass comes first.
ForwardBegin(tr, src, tgt) ==
    /\ pc = "idle"
    /\ (IF bleu = NoBleu THEN TRUE ELSE bleu.updates < MaxBleuUpdates)
    /\ training' = tr
    /\ caller' = "forward"
    /\ source' = src
    /\ target_tokens' = tgt
    /\ state' = IF tgt # NoTargets THEN InitDecoderState(src) ELSE EmptyDict
    /\ num_decoding_steps' = NumDecodingSteps(tgt)
    /\ timestep' = 0
    /\ last_predictions' = LastPredictionsInit
    /\ step_logits' = << >>
    /\ step_predictions' = << >>
    /\ step_inputs' = << >>
    /\ step_attention' = << >>
    /\ beam' = NoBeam
    /\ calls' = 0
    /\ output_dict' = EmptyDict
    /\ pc' = IF tgt # NoTargets THEN "loop" ELSE IF tr THEN "return" ELSE "beam_search"
    /\ metrics' = EmptyDict
    /\ reset_arg' = FALSE
    /\ UNCHANGED <<config, bleu, bleu_args, readable>>

\* _forward_loop called without gold targets on a fresh state, followed by the
\* beam search on a fresh state: the greedy run the docstring of _forward_loop
\* keeps the loop's predictions for.
GreedyBegin(tr, src) ==
    /\ pc = "idle"
    /\ training' = tr
    /\ caller' = "greedy"
    /\ source' = src
    /\ target_tokens' = NoTargets
    /\ state' = InitDecoderState(src)
    /\ num_decoding_steps' = NumDecodingSteps(NoTargets)
    /\ timestep' = 0
    /\ last_predictions' = LastPredictionsInit
    /\ step_logits' = << >>
    /\ step_predictions' = << >>
    /\ step_inputs' = << >>
    /\ step_attention' = << >>
    /\ beam' = NoBeam
    /\ calls' = 0
    /\ output_dict' = EmptyDict
    /\ pc' = "loop"
    /\ metrics' = EmptyDict
    /\ reset_arg' = FALSE
    /\ UNCHANGED <<config, bleu, bleu_args, readable>>

\* One iteration of the loop of _forward_loop.
LoopStep(draw) ==
    /\ pc = "loop"
    /\ timestep < num_decoding_steps
    /\ LET input_choices == InputChoices(training, draw, scheduled_sampling_ratio,
                                         target_tokens, last_predictions, timestep)
           out == Eager([b \in Batch |-> PrepareOutputProjections(weights, input_choices.choices[b], state[b])])
           predicted_classes == Eager([b \in Batch |-> ArgMax(Softmax(out[b].projections))])
       IN  /\ step_inputs' = Append(step_inputs, input_choices)
           /\ step_attention' = Append(step_attention,
                  [hidden_before |-> [b \in Batch |-> state[b].decoder_hidden],
                   query |-> [b \in Batch |-> out[b].query],
                   hidden_after |-> [b \in Batch |-> out[b].state.decoder_hidden],
                   projected |-> [b \in Batch |-> out[b].projected]])
           /\ step_logits' = Append(step_logits, [b \in Batch |-> out[b].projections])
           /\ state' = [b \in Batch |-> out[b].state]
           /\ last_predictions' = predicted_classes
           /\ step_predictions' = Append(step_predictions, predicted_classes)
    /\ timestep' = timestep + 1
    /\ calls' = calls + 1
    /\ UNCHANGED <<config, bleu, training, pc, caller, source, target_tokens,
                   num_decoding_steps, beam, output_dict, bleu_args, metrics, reset_arg, readable>>

\* torch.cat(step_predictions, 1): one row of predictions per batch element.
CatSteps(steps) == [b \in Batch |-> [t \in 1 .. Len(steps) |-> steps[t][b]]]

\* The tail of _forward_loop: the bundle of the loop, with the loss when there
\* are gold targets (the positive factor loss_weight / log(num_classes) is left
\* out of the loss).
LoopDict(tgt, logits, preds) ==
    LET predictions == CatSteps(preds)
        base == [k \in {"predictions", "class_probabilities"} |-> predictions]
    IN  IF tgt = NoTargets THEN base
        ELSE [k \in {"predictions", "class_probabilities", "loss"} |->
                IF k = "loss" THEN GetLoss(logits, tgt.tokens, TextFieldMask(tgt))
                ELSE predictions]

LoopEnd ==
    /\ pc = "loop"
    /\ timestep = num_decoding_steps
    /\ output_dict' = LoopDict(target_tokens, step_logits, step_predictions)
    /\ pc' = IF caller = "forward" /\ training THEN "return" ELSE "beam_search"
    /\ UNCHANGED <<config, bleu, training, caller, source, target_tokens, state, loopVars,
                   beam, calls, bleu_args, metrics, reset_arg, readable>>

\* -------------------------------------------------------------- beam search
\* BeamSearch(self._end_index, max_steps=max_decoding_steps, beam_size=beam_size):
\* the end marker and the budget the search is constructed with.
BeamSearchEndIndexAsStart == StartIndex

BeamSearchEndIndex == EndIndex

BeamSearchMaxStepsPlusOne == MaxDecodingSteps + 1

BeamSearchMaxSteps == MaxDecodingSteps

\* Each node is expanded beam_size ways.
PerNodeBeamSize == beam_size

Rows == 1 .. beam_size

\* A vocabulary row as the sequence of its values, class c at position c + 1.
AsSeq(row) == Eager([i \in 1 .. VocabSize |-> row[i - 1]])

\* The row a finished hypothesis is continued with: only the end marker, at no cost.
LogProbsAfterEnd == Eager([c \in Classes |-> IF c = BeamSearchEndIndex THEN 0 ELSE NegInf])

\* The first step of the search: the step function on the start marker, and its
\* beam_size best classes as the first hypotheses of every batch element.  With
\* one beam whose every first class is the end marker the search returns at once.
BeamInitial(w, start_predictions, st0) ==
    LET out == Eager([b \in Batch |-> TakeStep(w, start_predictions[b], st0[b])])
        top == Eager([b \in Batch |-> TopK(AsSeq(out[b].log_probabilities), beam_size)])
        first == Eager([b \in Batch |-> Eager([k \in Rows |-> top[b][k] - 1])])
    IN  [start_predictions |-> start_predictions,
         start_state |-> st0,
         predictions |-> [b \in Batch |-> [k \in Rows |-> <<first[b][k]>>]],
         log_probabilities |-> [b \in Batch |-> [k \in Rows |-> out[b].log_probabilities[first[b][k]]]],
         backpointers |-> [b \in Batch |-> [k \in Rows |-> 0]],
         state |-> [b \in Batch |-> [k \in Rows |-> out[b].state]],
         timestep |-> 0,
         done |-> beam_size = 1 /\ \A b \in Batch : first[b][1] = BeamSearchEndIndex]

LastOf(hyp) == hyp[Len(hyp)]

AllEnded(bm) == \A b \in Batch : \A k \in Rows : LastOf(bm.predictions[b][k]) = BeamSearchEndIndex

\* The candidates of one batch element, in the order row by row and, within a
\* row, best class first: each with its class, its summed log-probability and
\* the row it continues.
Candidates(w, bm, b) ==
    LET out == Eager([k \in Rows |-> TakeStep(w, LastOf(bm.predictions[b][k]), bm.state[b][k])])
        cleaned == Eager([k \in Rows |->
                      IF LastOf(bm.predictions[b][k]) = BeamSearchEndIndex THEN LogProbsAfterEnd
                      ELSE out[k].log_probabilities])
        top == Eager([k \in Rows |-> TopK(AsSeq(cleaned[k]), PerNodeBeamSize)])
    IN  Eager([i \in 1 .. (beam_size * PerNodeBeamSize) |->
            LET k == ((i - 1) \div PerNodeBeamSize) + 1
                j == ((i - 1) % PerNodeBeamSize) + 1
                class == top[k][j] - 1
            IN  [class |-> class,
                 log_probability |-> cleaned[k][class] + bm.log_probabilities[b][k],
                 backpointer |-> k,
                 state |-> out[k].state]])

\* One expansion and pruning of every batch element.
BeamExpand(w, bm) ==
    LET kept == Eager([b \in Batch |->
                    LET c == Candidates(w, bm, b)
                        best == TopK(Eager([i \in 1 .. Len(c) |-> c[i].log_probability]), beam_size)
                    IN  Eager([k \in Rows |-> c[best[k]]])])
    IN  [start_predictions |-> bm.start_predictions,
         start_state |-> bm.start_state,
         predictions |-> [b \in Batch |-> [k \in Rows |->
                            Append(bm.predictions[b][kept[b][k].backpointer], kept[b][k].class)]],
         log_probabilities |-> [b \in Batch |-> [k \in Rows |-> kept[b][k].log_probability]],
         backpointers |-> [b \in Batch |-> [k \in Rows |-> kept[b][k].backpointer]],
         state |-> [b \in Batch |-> [k \in Rows |-> kept[b][k].state]],
         timestep |-> bm.timestep + 1,
         done |-> FALSE]

\* The state the loop left is handed on, where there is one.
StateKeptFromLoop(src, st) == IF st = EmptyDict THEN InitDecoderState(src) ELSE st

\* state = self._init_decoder_state(state) in forward, before the beam search.
StateForBeamSearch(src, st) == InitDecoderState(src)

\* forward re-initialises the decoder state; _forward_beam_search makes the start
\* predictions and search takes its first step.
BeamBegin ==
    /\ pc = "beam_search"
    /\ LET st0 == StateForBeamSearch(source, state)
       IN  /\ beam' = BeamInitial(weights, StartPredictions, st0)
           /\ state' = [b \in Batch |-> TakeStep(weights, StartPredictions[b], st0[b]).state]
    /\ calls' = 1
    /\ pc' = "searching"
    /\ UNCHANGED <<config, bleu, training, caller, source, target_tokens, loopVars, output_dict,
                   bleu_args, metrics, reset_arg, readable>>

\* The loop of search runs while the budget lasts and some hypothesis has not
\* ended.
SearchContinues(bm) == ~bm.done /\ bm.timestep < BeamSearchMaxSteps - 1 /\ ~AllEnded(bm)

\* The search returns at once, at the end of the budget, or when every
\* hypothesis has ended.
SearchReturns(bm) == bm.done \/ bm.timestep >= BeamSearchMaxSteps - 1 \/ AllEnded(bm)

\* One iteration of the loop of search.
BeamStep ==
    /\ pc = "searching"
    /\ SearchContinues(beam)
    /\ beam' = BeamExpand(weights, beam)
    /\ calls' = calls + 1
    /\ UNCHANGED <<config, bleu, training, pc, caller, source, target_tokens, state, loopVars,
                   output_dict, bleu_args, metrics, reset_arg, readable>>

\* ------------------------------------------------------------------ metric
ExcludeIndices == {PadIndex, EndIndex, StartIndex}

Count(s, tok) == Cardinality({i \in 1 .. Len(s) : s[i] = tok})

Min2(a, b) == IF a < b THEN a ELSE b

RECURSIVE SumOver(_, _)
SumOver(f, S) == IF S = {} THEN 0 ELSE LET e == CHOOSE e \in S : TRUE IN f[e] + SumOver(f, S \ {e})

ValidLength(s) == Cardinality({i \in 1 .. Len(s) : s[i] \notin ExcludeIndices})

\* BLEU.__call__ with unigrams: clipped matches and totals over the tokens that
\* are not excluded, and the lengths of predictions and references.
BleuCall(m, predictions, gold) ==
    [precision_matches |-> m.precision_matches +
        SumOver([b \in Batch |->
                    SumOver([c \in Classes |->
                                IF c \in ExcludeIndices THEN 0
                                ELSE Min2(Count(predictions[b], c), Count(gold[b], c))], Classes)],
                Batch),
     precision_totals |-> m.precision_totals + SumOver([b \in Batch |-> ValidLength(predictions[b])], Batch),
     prediction_lengths |-> m.prediction_lengths + SumOver([b \in Batch |-> ValidLength(predictions[b])], Batch),
     reference_lengths |-> m.reference_lengths + SumOver([b \in Batch |-> ValidLength(gold[b])], Batch),
     updates |-> m.updates + 1]

\* BLEU.get_metric: the score is a function of the four counters.
BleuScore(m) == [k \in {"precision_matches", "precision_totals", "prediction_lengths", "reference_lengths"} |-> m[k]]

\* The lowest-ranked beam instead of the first.
WorstPredictions(top_k_predictions) == [b \in Batch |-> top_k_predictions[b][Len(top_k_predictions[b])]]

\* top_k_predictions[:, 0, :]
BestPredictions(top_k_predictions) == [b \in Batch |-> top_k_predictions[b][1]]

\* The bundle of _forward_beam_search.
BeamDict(bm) ==
    [k \in {"class_log_probabilities", "predictions"} |->
        IF k = "predictions" THEN bm.predictions ELSE bm.log_probabilities]

\* An update that leaves the bundle as it was.
UpdateDiscarded(d, e) == d

\* output_dict.update(predictions)
Update(d, e) == [k \in DOMAIN d \cup DOMAIN e |-> IF k \in DOMAIN e THEN e[k] ELSE d[k]]

\* search returns; forward merges the bundle and, in forward with gold targets
\* and a metric, calls the metric.
BeamEnd ==
    /\ pc = "searching"
    /\ SearchReturns(beam)
    /\ output_dict' = Update(output_dict, BeamDict(beam))
    /\ IF caller = "forward" /\ target_tokens # NoTargets /\ bleu # NoBleu
       THEN /\ bleu' = BleuCall(bleu, BestPredictions(beam.predictions), target_tokens.tokens)
            /\ bleu_args' = <<BestPredictions(beam.predictions), target_tokens.tokens>>
       ELSE UNCHANGED <<bleu, bleu_args>>
    /\ pc' = "return"
    /\ UNCHANGED <<config, training, caller, source, target_tokens, state, loopVars, beam,
                   calls, metrics, reset_arg, readable>>

\* return output_dict: the bundle goes to the caller and the locals of the call
\* are gone.
Return ==
    /\ pc = "return"
    /\ pc' = "idle"
    /\ caller' = "forward"
    /\ source' = NoSource
    /\ target_tokens' = NoTargets
    /\ state' = EmptyDict
    /\ num_decoding_steps' = 0
    /\ timestep' = 0
    /\ last_predictions' = EmptyDict
    /\ step_logits' = << >>
    /\ step_predictions' = << >>
    /\ step_inputs' = << >>
    /\ step_attention' = << >>
    /\ beam' = NoBeam
    /\ calls' = 0
    /\ output_dict' = EmptyDict
    /\ bleu_args' = << >>
    /\ predicted_indices' = NoTensor
    /\ all_predicted_tokens' = << >>
    /\ loss_call' = << >>
    /\ UNCHANGED <<config, bleu, training, metrics, reset_arg>>

\* get_metrics
GetMetrics(reset) ==
    /\ pc = "idle"
    /\ metrics' = IF bleu # NoBleu THEN [k \in {"bleu"} |-> BleuScore(bleu)] ELSE EmptyDict
    /\ bleu' = IF bleu # NoBleu /\ reset THEN ZeroBleu ELSE bleu
    /\ reset_arg' = reset
    /\ UNCHANGED <<config, training, pc, caller, source, target_tokens, state, loopVars, beam,
                   calls, output_dict, bleu_args, readable>>

\* The logits a caller of _get_loss may hand over: any number of steps up to
\* the longest target, every row one the projection layer can produce.
LossLogits(w) ==
    { [t \in 1 .. n |-> [b \in Batch |-> OutputProjection(w, (h + t + b) % HiddenMod)]] :
        n \in 1 .. MaxTargetLen, h \in HiddenValues }

\* _get_loss called on its own (it is a static method): logits of any number of
\* steps, gold targets and their mask.
GetLossCall(logits, tgt) ==
    /\ pc = "idle"
    /\ caller' = "get_loss"
    /\ loss_call' = [logits |-> logits, targets |-> tgt,
                     loss |-> GetLoss(logits, tgt.tokens, TextFieldMask(tgt))]
    /\ pc' = "return"
    /\ metrics' = EmptyDict
    /\ reset_arg' = FALSE
    /\ UNCHANGED <<config, bleu, training, source, target_tokens, state, loopVars, beam, calls,
                   output_dict, bleu_args, predicted_indices, all_predicted_tokens>>

\* --------------------------------------------------------------- finalizer
\* self.vocab.get_token_from_index: one token per id, different ids apart.
TokenFromIndex(x) == [token |-> x]

\* The row cut after the end marker instead of before it.
PredictedTokensKeepingEnd(indices) ==
    LET cut == IF Contains(indices, EndIndex)
               THEN SubSeq(indices, 1, IndexOf(indices, EndIndex, 1))
               ELSE indices
    IN  [i \in 1 .. Len(cut) |-> TokenFromIndex(cut[i])]

\* The inner loop body of make_output_human_readable: one row of ids to tokens.
PredictedTokens(indices) ==
    LET cut == IF Contains(indices, EndIndex)
               THEN SubSeq(indices, 1, IndexOf(indices, EndIndex, 1) - 1)
               ELSE indices
    IN  [i \in 1 .. Len(cut) |-> TokenFromIndex(cut[i])]

\* make_output_human_readable on an array of dims dimensions: a batch of rows
\* (2) or a batch of beams of rows (3).
MakeOutputHumanReadable(t) ==
    [b \in Batch |->
        LET top_k_predictions == IF t.dims = 2 THEN <<t.data[b]>> ELSE t.data[b]
        IN  [k \in 1 .. Len(top_k_predictions) |-> PredictedTokens(top_k_predictions[k])]]

\* The predictions of a bundle as an array: the beam search gives three
\* dimensions, the loop alone two.
PredictionsTensor(d) ==
    [dims |-> IF "class_log_probabilities" \in DOMAIN d THEN 3 ELSE 2, data |-> d["predictions"]]

\* The caller hands the predictions of the bundle to make_output_human_readable.
MakeReadable ==
    /\ pc = "return"
    /\ "predictions" \in DOMAIN output_dict
    /\ predicted_indices' = PredictionsTensor(output_dict)
    /\ all_predicted_tokens' = MakeOutputHumanReadable(PredictionsTensor(output_dict))
    /\ UNCHANGED <<config, bleu, training, pc, caller, source, target_tokens, state, loopVars,
                   beam, calls, output_dict, bleu_args, metrics, reset_arg, loss_call>>

Next ==
    \/ \E tr \in BOOLEAN, src \in Sources, tgt \in Targets \cup {NoTargets} : ForwardBegin(tr, src, tgt)
    \/ \E tr \in BOOLEAN, src \in Sources : GreedyBegin(tr, src)
    \/ \E draw \in 0 .. (RandDen - 1) : LoopStep(draw)
    \/ LoopEnd
    \/ BeamBegin
    \/ BeamStep
    \/ BeamEnd
    \/ MakeReadable
    \/ Return
    \/ \E reset \in BOOLEAN : GetMetrics(reset)

Spec == Init /\ [][Next]_vars

SpecBleu == InitBleu /\ [][Next]_vars

SpecStacked == InitStacked /\ [][Next]_vars

\* The instance's calls together with calls of _get_loss on its own.
NextLoss ==
    \/ Next
    \/ \E logits \in LossLogits(weights), tgt \in Targets : GetLossCall(logits, tgt)

SpecLoss == Init /\ [][NextLoss]_vars

\* ================================================================== claims
ForwardReturns == pc = "return" /\ caller = "forward"

HasLoss(d) == "loss" \in DOMAIN d

HasTopK(d) ==
    /\ {"predictions", "class_log_probabilities"} \subseteq DOMAIN d
    /\ \A b \in Batch : Len(d["predictions"][b]) = beam_size /\ Len(d["class_log_probabilities"][b]) = beam_size

\* C1: when forward returns, the bundle holds a loss exactly when gold targets
\* were supplied, and top-k predictions with their log-probabilities exactly
\* when the model is not in training mode; then the predictions entry is the
\* result of the beam search.
C1_ResultBundle ==
    ForwardReturns =>
        /\ (HasLoss(output_dict) <=> target_tokens # NoTargets)
        /\ (HasTopK(output_dict) <=> ~training)
        /\ (~training => /\ output_dict["predictions"] = beam.predictions
                         /\ output_dict["class_log_probabilities"] = beam.log_probabilities)

\* C1 witness: an evaluation call with gold targets returns a loss and beam
\* predictions that differ from the predictions of the loop.
C1_Witness ==
    /\ ForwardReturns /\ ~training /\ target_tokens # NoTargets
    /\ HasLoss(output_dict) /\ HasTopK(output_dict)
    /\ \E b \in Batch : output_dict["predictions"][b][1] # CatSteps(step_predictions)[b]

\* Step t of the loop (counted from 1) was fed the gold tokens of position t - 1.
GoldFed(t) ==
    step_inputs[t].choices = [b \in Batch |-> target_tokens.tokens[b][t]]

\* Step t of the loop was fed the predictions of step t - 1, the start markers at
\* the first step.
SelfFed(t) ==
    step_inputs[t].choices = IF t = 1 THEN LastPredictionsInit ELSE step_predictions[t - 1]

\* C2 as stated: ratio 0 feeds gold at every step when there are gold targets,
\* and ratio 1 feeds the previous prediction at every step.
C2_AsStated ==
    /\ (scheduled_sampling_ratio = 0 /\ target_tokens # NoTargets)
            => \A t \in 1 .. Len(step_inputs) : GoldFed(t)
    /\ scheduled_sampling_ratio = RandDen
            => \A t \in 1 .. Len(step_inputs) : SelfFed(t)

\* C2 amended: ratio 0 feeds gold at every step when there are gold targets;
\* ratio 1 feeds the previous prediction at every step in training mode.
C2_SamplingExtremes ==
    /\ (scheduled_sampling_ratio = 0 /\ target_tokens # NoTargets)
            => \A t \in 1 .. Len(step_inputs) : GoldFed(t)
    /\ (scheduled_sampling_ratio = RandDen /\ training)
            => \A t \in 1 .. Len(step_inputs) : SelfFed(t)

\* C2 witness: a training pass with ratio 1 and gold targets has fed a
\* prediction that is not the gold token of that position.
C2_Witness ==
    /\ scheduled_sampling_ratio = RandDen /\ training /\ target_tokens # NoTargets
    /\ Len(step_inputs) >= 2
    /\ \E t \in 2 .. Len(step_inputs) :
            step_inputs[t].choices # [b \in Batch |-> target_tokens.tokens[b][t]]

\* The tokens toks are the ids before the first end marker of ids, in order.
TrimmedAs(ids, toks) ==
    /\ Len(toks) <= Len(ids)
    /\ \A i \in 1 .. Len(toks) : toks[i] = TokenFromIndex(ids[i]) /\ ids[i] # EndIndex
    /\ Len(toks) < Len(ids) => ids[Len(toks) + 1] = EndIndex

\* The hypotheses of batch element b: the row itself when the array is a batch
\* of rows.
HypothesesOf(t, b) == IF t.dims = 2 THEN <<t.data[b]>> ELSE t.data[b]

\* C3: the finalizer returns, per batch element and per beam, the tokens of the
\* ids before the first end marker, in order, and a single beam for a row.
C3_Finalizer ==
    predicted_indices # NoTensor =>
        /\ DOMAIN all_predicted_tokens = Batch
        /\ \A b \in Batch :
              /\ Len(all_predicted_tokens[b]) = Len(HypothesesOf(predicted_indices, b))
              /\ \A k \in 1 .. Len(all_predicted_tokens[b]) :
                    TrimmedAs(HypothesesOf(predicted_indices, b)[k], all_predicted_tokens[b][k])

\* C3 witness: a row of ids with an id before the end marker and another id
\* after it has been finalized.
C3_Witness ==
    /\ predicted_indices # NoTensor
    /\ predicted_indices.dims = 2
    /\ \E b \in Batch :
          LET ids == predicted_indices.data[b]
          IN  \E i \in 2 .. (Len(ids) - 1) :
                /\ ids[i] = EndIndex /\ ids[i - 1] # EndIndex /\ ids[i + 1] # EndIndex
                /\ Len(all_predicted_tokens[b][1]) = i - 1

\* C4: a hypothesis of the beam that continues one that has emitted the end
\* marker is that hypothesis followed by the end marker, with the same
\* cumulative log-probability.
C4_FrozenAfterEnd ==
    [][(pc = "searching" /\ pc' = "searching" /\ beam'.timestep = beam.timestep + 1) =>
          \A b \in Batch : \A k \in Rows :
              LET parent == beam'.backpointers[b][k]
              IN  Contains(beam.predictions[b][parent], EndIndex) =>
                    /\ beam'.predictions[b][k] = Append(beam.predictions[b][parent], EndIndex)
                    /\ beam'.log_probabilities[b][k] = beam.log_probabilities[b][parent]]_vars

\* C4 witness: a hypothesis has been continued after its end marker while
\* another hypothesis of the same batch element is still open.
C4_Witness ==
    /\ pc = "searching"
    /\ beam.timestep >= 1
    /\ \E b \in Batch : \E k, k2 \in Rows :
          LET h == beam.predictions[b][k]
          IN  /\ h[Len(h) - 1] = EndIndex /\ h[Len(h)] = EndIndex
              /\ ~Contains(beam.predictions[b][k2], EndIndex)

\* C5: the search never gets stuck, never runs past the budget, and every
\* hypothesis it returns is at most max_decoding_steps long and either holds the
\* end marker or is exactly max_decoding_steps long.
C5_BeamSearchResult ==
    /\ pc = "searching" =>
          /\ beam.timestep <= MaxDecodingSteps - 1
          /\ SearchContinues(beam) \/ SearchReturns(beam)
    /\ (pc = "return" /\ beam # NoBeam) =>
          \A b \in Batch :
              /\ Len(output_dict["predictions"][b]) = beam_size
              /\ Len(output_dict["class_log_probabilities"][b]) = beam_size
              /\ \A k \in Rows :
                    LET h == output_dict["predictions"][b][k]
                    IN  /\ Len(h) >= 1
                        /\ Len(h) <= MaxDecodingSteps
                        /\ Contains(h, EndIndex) \/ Len(h) = MaxDecodingSteps
                        /\ output_dict["class_log_probabilities"][b][k] > NegInf

\* C5 witness: a search returns, in one result, a hypothesis that ended and one
\* that ran into the budget without the end marker.
C5_Witness ==
    /\ pc = "return" /\ beam # NoBeam
    /\ \E b, b2 \in Batch : \E k, k2 \in Rows :
          /\ Contains(output_dict["predictions"][b][k], EndIndex)
          /\ ~Contains(output_dict["predictions"][b2][k2], EndIndex)
          /\ Len(output_dict["predictions"][b2][k2]) = MaxDecodingSteps

GreedyReturns == pc = "return" /\ caller = "greedy" /\ beam_size = 1

C7_AsStated == calls <= MaxDecodingSteps

\* C7 amended: the beam search and the loop without gold targets call the step
\* function at most max_decoding_steps times; the loop with gold targets of
\* length L calls it at most L - 1 times.
C7_StepBudget ==
    /\ beam # NoBeam => calls <= MaxDecodingSteps
    /\ (beam = NoBeam /\ target_tokens = NoTargets) => calls <= MaxDecodingSteps
    /\ (beam = NoBeam /\ target_tokens # NoTargets) => calls <= Len(target_tokens.tokens[1]) - 1

\* C7 witness: a search has used the whole budget with a hypothesis still open.
C7_Witness ==
    /\ pc = "searching"
    /\ calls = MaxDecodingSteps
    /\ ~AllEnded(beam)

\* C8: the metric changes only at the end of the beam search of a forward call
\* out of training mode with gold targets, and then by the first beam of every
\* batch element and the gold tokens, or when get_metrics resets it; get_metrics
\* returns the score of the counters as they were and clears them on reset.
C8_MetricUpdates ==
    [][/\ (bleu' # bleu /\ pc # "idle") =>
              /\ pc = "searching" /\ caller = "forward" /\ ~training
              /\ target_tokens # NoTargets /\ bleu # NoBleu
              /\ bleu_args' = <<[b \in Batch |-> beam.predictions[b][1]], target_tokens.tokens>>
              /\ bleu' = BleuCall(bleu, bleu_args'[1], bleu_args'[2])
       /\ (bleu' # bleu /\ pc = "idle") => (reset_arg' /\ bleu' = ZeroBleu)
       /\ (pc = "idle" /\ pc' = "idle" /\ bleu # NoBleu) =>
              /\ metrics' = [k \in {"bleu"} |-> BleuScore(bleu)]
              /\ bleu' = IF reset_arg' THEN ZeroBleu ELSE bleu
       /\ (pc = "searching" /\ pc' = "return" /\ caller = "forward" /\ ~training
              /\ target_tokens # NoTargets /\ bleu # NoBleu) => bleu'.updates = bleu.updates + 1]_vars

\* C8 witness: the metric has counted the first beam of a search whose second
\* beam has another number of countable tokens.
C8_Witness ==
    /\ pc = "return" /\ bleu # NoBleu /\ beam # NoBeam /\ beam_size >= 2
    /\ bleu.updates = 1 /\ bleu.prediction_lengths > 0
    /\ \E b \in Batch : ValidLength(beam.predictions[b][1]) # ValidLength(beam.predictions[b][2])

\* C9: with gold targets of length L the loop runs L - 1 steps, and the gold
\* positions read as inputs lie in 0 .. L - 2.
C9_GoldSteps ==
    target_tokens # NoTargets =>
        LET L == Len(target_tokens.tokens[1])
        IN  /\ num_decoding_steps = L - 1
            /\ Len(step_inputs) <= L - 1
            /\ pc # "loop" => Len(step_inputs) = L - 1
            /\ \A t \in 1 .. Len(step_inputs) :
                  step_inputs[t].from = "targets" => step_inputs[t].position \in 0 .. (L - 2)

\* C9 witness: a loop over the longest gold targets has ended with gold read at
\* position L - 2.
C9_Witness ==
    /\ target_tokens # NoTargets
    /\ pc = "return"
    /\ Len(target_tokens.tokens[1]) = MaxTargetLen
    /\ Len(step_inputs) = MaxTargetLen - 1
    /\ step_inputs[MaxTargetLen - 1].from = "targets"
    /\ step_inputs[MaxTargetLen - 1].position = MaxTargetLen - 2

ShiftedLoss(logits, tgt) ==
    LET L == Len(tgt.tokens[1])
    IN  [b \in Batch |->
            [nll |-> SumTo([s \in 1 .. (L - 1) |->
                              LET t == s - 1
                              IN  IF tgt.tokens[b][t + 2] # PadIndex
                                  THEN 0 - LogSoftmax(logits[t + 1][b])[tgt.tokens[b][t + 2]]
                                  ELSE 0], L - 1),
             weight |-> Cardinality({t \in 0 .. (L - 2) : tgt.tokens[b][t + 2] # PadIndex})]]

\* The calls of _get_loss that have returned in this state, from the loop of
\* forward or on their own: logits, targets and the loss returned.
LossCalls ==
    IF pc = "return" /\ caller = "get_loss" THEN {loss_call}
    ELSE IF pc = "return" /\ caller = "forward" /\ "loss" \in DOMAIN output_dict
    THEN {[logits |-> step_logits, targets |-> target_tokens, loss |-> output_dict["loss"]]}
    ELSE {}

\* C11 as stated: _get_loss sets the logit of step t against target and mask at
\* position t + 1 for t in 0 .. L - 2, and a call whose logits do not have
\* exactly L - 1 steps fails.
C11_AsStated ==
    \A call \in LossCalls :
        IF Len(call.logits) = Len(call.targets.tokens[1]) - 1
        THEN /\ ~call.loss.failed
             /\ call.loss.per_sequence = ShiftedLoss(call.logits, call.targets)
        ELSE call.loss.failed

\* C11, what holds: with exactly L - 1 steps of logits the loss is the shifted
\* one, and a call with fewer than L - 1 steps fails; a call with more steps
\* is not rejected.
C11_ShiftedLoss ==
    \A call \in LossCalls :
        /\ Len(call.logits) = Len(call.targets.tokens[1]) - 1 =>
                /\ ~call.loss.failed
                /\ call.loss.per_sequence = ShiftedLoss(call.logits, call.targets)
        /\ Len(call.logits) < Len(call.targets.tokens[1]) - 1 => call.loss.failed
        /\ Len(call.logits) > Len(call.targets.tokens[1]) - 1 => ~call.loss.failed

\* C11 witness: a call with one step too many returns a loss that is not the
\* shifted loss of its first L - 1 steps, for a batch with a masked position.
C11_Witness ==
    /\ pc = "return"
    /\ caller = "get_loss"
    /\ Len(loss_call.logits) = Len(loss_call.targets.tokens[1])
    /\ \E b \in Batch : loss_call.targets.tokens[b][Len(loss_call.targets.tokens[b])] = PadIndex
    /\ ~loss_call.loss.failed
    /\ loss_call.loss.per_sequence # ShiftedLoss(loss_call.logits, loss_call.targets)

\* The last layer of a stack of hidden states: the top layer, whose output
\* leaves the cell.
TopLayer(decoder_hidden) == decoder_hidden[Len(decoder_hidden)]

\* C12 as stated: with attention and a stacked cell, in every step the attention
\* query is the top layer's hidden state before the update, and the projection
\* layer is handed the same layer's hidden state after the update.
C12_AsStated ==
    attention /\ target_decoder_layers > 1 =>
        \A t \in 1 .. Len(step_attention) : \A b \in Batch :
            /\ step_attention[t].query[b] = TopLayer(step_attention[t].hidden_before[b])
            /\ step_attention[t].projected[b] = TopLayer(step_attention[t].hidden_after[b])

\* C12, what holds: the attention query is the first layer's hidden state
\* before the update, and the projection layer is handed the top layer's
\* hidden state after the update.
C12_QueryFirstLayer ==
    attention /\ target_decoder_layers > 1 =>
        \A t \in 1 .. Len(step_attention) : \A b \in Batch :
            /\ step_attention[t].query[b] = step_attention[t].hidden_before[b][1]
            /\ step_attention[t].projected[b] = TopLayer(step_attention[t].hidden_after[b])

\* C12 witness: a step of a stacked cell with attention whose first and top
\* layer hold different hidden states before the update.
C12_Witness ==
    /\ attention
    /\ target_decoder_layers > 1
    /\ \E t \in 1 .. Len(step_attention) : \E b \in Batch :
            /\ step_attention[t].hidden_before[b][1] # TopLayer(step_attention[t].hidden_before[b])
            /\ step_attention[t].query[b] = step_attention[t].hidden_before[b][1]

RECURSIVE SearchFrom(_, _)
\* The search run to its end from a beam.
SearchFrom(w, bm) == IF SearchReturns(bm) THEN bm ELSE SearchFrom(w, BeamExpand(w, bm))

\* The result of the beam search as a function of the encoder inputs alone.
SearchOf(w, src) == SearchFrom(w, BeamInitial(w, StartPredictions, InitDecoderState(src)))

\* Every layer of a hidden state or context holds the value v.
EveryLayer(x, v) ==
    IF target_decoder_layers > 1 THEN \A l \in 1 .. Len(x) : x[l] = v ELSE x = v

\* The beam search of a forward call out of training mode is under way or over.
EvalSearch == caller = "forward" /\ ~training /\ beam # NoBeam /\ pc \in {"searching", "return"}

\* C13: in a forward call out of training mode the beam search starts from the
\* re-initialised state, hidden state the final encoder state and context zero,
\* whatever the loop did to the state; its predictions and log-probabilities
\* are those the encoder inputs alone determine, with or without gold targets.
C13_FreshBeamSearch ==
    EvalSearch =>
        /\ \A b \in Batch :
              /\ EveryLayer(beam.start_state[b].decoder_hidden, FinalEncoderStates(source)[b])
              /\ EveryLayer(beam.start_state[b].decoder_context, 0)
        /\ pc = "return" =>
              /\ output_dict["predictions"] = SearchOf(weights, source).predictions
              /\ output_dict["class_log_probabilities"] = SearchOf(weights, source).log_probabilities

\* C13 witness: a forward call out of training mode with gold targets returns
\* after a loop that left hidden states other than the final encoder states.
C13_Witness ==
    /\ EvalSearch
    /\ pc = "return"
    /\ target_tokens # NoTargets
    /\ Len(step_attention) >= 1
    /\ \E b \in Batch :
          step_attention[Len(step_attention)].hidden_after[b] # FinalEncoderStates(source)[b]
    /\ output_dict["predictions"] = SearchOf(weights, source).predictions
====
